---------------------------- MODULE Spec2Model ----------------------------
(***************************************************************************)
(* Model of the Vietnamese Wordle assist tool (src/main.go).               *)
(*                                                                         *)
(* src/main.go holds two generations of the program:                       *)
(*   - lines   1..214: the one-shot program; `main` reads one line and     *)
(*     dispatches on '-' between the length dialect (parsePattern,         *)
(*     matchSyllablePatternWithChars) and a two-argument matchWildcard;    *)
(*   - lines 216..452: the looping program; `main` calls `ui` for ever,    *)
(*     `ui` parses '+'/'-' tokens and calls the four-argument              *)
(*     matchWildcard.                                                      *)
(* Both are modelled.  Where the two generations define the same name, the *)
(* older definition carries the suffix V1.                                 *)
(*                                                                         *)
(* A Go string is modelled as the sequence of its runes (code points).     *)
(***************************************************************************)
EXTENDS Integers, Sequences, FiniteSets, TLC

VARIABLES
    prog,      \* which generation of `main` runs: "v1" (one-shot) or "v2" (loop)
    pc,        \* position of main: "load", "prompt", "exit";
               \* of a function call: "call", "return"
    cache,     \* the file os.TempDir()/dict_cache.json
    remote,    \* what http.Get(url) answered, if loadDictFromURL was called
    wrote,     \* how os.WriteFile on the cache path ended, if it was called
    dict,      \* the keys of the map main holds (the payload is never read)
    query,     \* the line read from stdin by the last prompt
    branch,    \* the switch case taken for that line
    out,       \* the dictionary keys printed for that line
    exitCode,  \* the process exit status, once pc = "exit"
    arg,       \* the arguments of a function call
    ret        \* its result

vars == <<prog, pc, cache, remote, wrote, dict, query, branch, out, exitCode,
          arg, ret>>

-----------------------------------------------------------------------------
(* Runes.  The code points of the characters the model's inputs are drawn  *)
(* from.                                                                   *)
rune ==
    [ tab    |-> 9,     \* '\t'
      sp     |-> 32,    \* ' '
      bang   |-> 33,    \* '!'
      star   |-> 42,    \* '*'
      plus   |-> 43,    \* '+'
      hyphen |-> 45,    \* '-'
      zero   |-> 48,    \* '0'
      one    |-> 49,    \* '1'
      two    |-> 50,    \* '2'
      nine   |-> 57,    \* '9'
      A      |-> 65,
      B      |-> 66,
      D      |-> 68,
      Z      |-> 90,
      a      |-> 97,
      b      |-> 98,
      d      |-> 100,
      Aacute |-> 193,   \* U+00C1 LATIN CAPITAL LETTER A WITH ACUTE
      aacute |-> 225,   \* U+00E1 LATIN SMALL LETTER A WITH ACUTE
      Dstroke|-> 272,   \* U+0110 LATIN CAPITAL LETTER D WITH STROKE
      dstroke|-> 273,   \* U+0111 LATIN SMALL LETTER D WITH STROKE
      acute  |-> 769,   \* U+0301 COMBINING ACUTE ACCENT      (Mn, ccc 230)
      dotbelow |-> 803, \* U+0323 COMBINING DOT BELOW         (Mn, ccc 220)
      cgj    |-> 847,   \* U+034F COMBINING GRAPHEME JOINER   (Mn, ccc 0)
      adotbelow |-> 7841,   \* U+1EA1 LATIN SMALL LETTER A WITH DOT BELOW
      tonemark |-> 12334,   \* U+302E HANGUL SINGLE DOT TONE MARK (Mc, ccc 224)
      stem   |-> 119141 ]   \* U+1D165 MUSICAL SYMBOL COMBINING STEM (Mc, ccc 216)

(* All strings over `alphabet` of at most n runes.                         *)
Strings(alphabet, n) == UNION { [1..k -> alphabet] : k \in 0..n }

-----------------------------------------------------------------------------
(* Library functions the program calls, by what they do.                   *)

(* unicode.IsSpace: the Latin-1 white space of Go's unicode package.       *)
IsSpace(r) == r \in {9, 10, 11, 12, 13, 32, 133, 160}

(* unicode.Is(unicode.Mn, r): general category Nonspacing_Mark.            *)
IsMn(r) == r \in {rune.acute, rune.dotbelow, rune.cgj}

(* Canonical decomposition of one rune (UnicodeData.txt, field 5), for the *)
(* runes of the model's input sets.                                        *)
Decompose(r) ==
    CASE r = rune.aacute    -> <<rune.a, rune.acute>>
      [] r = rune.Aacute    -> <<rune.A, rune.acute>>
      [] r = rune.adotbelow -> <<rune.a, rune.dotbelow>>
      [] OTHER              -> <<r>>

(* Canonical combining class of a rune (UnicodeData.txt, field 3).         *)
CCC(r) ==
    CASE r = rune.acute    -> 230
      [] r = rune.dotbelow -> 220
      [] r = rune.tonemark -> 224
      [] r = rune.stem     -> 216
      [] OTHER             -> 0

(* Canonical ordering: r is appended to s and moved left past every        *)
(* preceding rune of a greater non-zero combining class.                   *)
RECURSIVE InsertCanonical(_, _)
InsertCanonical(s, r) ==
    IF CCC(r) # 0 /\ s # <<>> /\ CCC(s[Len(s)]) > CCC(r)
    THEN Append(InsertCanonical(SubSeq(s, 1, Len(s) - 1), r), s[Len(s)])
    ELSE Append(s, r)

RECURSIVE AppendCanonical(_, _)
AppendCanonical(s, rs) ==
    IF rs = <<>> THEN s
    ELSE AppendCanonical(InsertCanonical(s, Head(rs)), Tail(rs))

(* norm.NFD.String: full canonical decomposition, canonically ordered.     *)
RECURSIVE NFDFrom(_, _)
NFDFrom(acc, str) ==
    IF str = <<>> THEN acc
    ELSE NFDFrom(AppendCanonical(acc, Decompose(Head(str))), Tail(str))

NFD(str) == NFDFrom(<<>>, str)

(* unicode.ToLower on one rune, strings.ToLower on a string.               *)
ToLowerRune(r) ==
    CASE r >= rune.A /\ r <= rune.Z -> r + 32
      [] r = rune.Aacute            -> rune.aacute
      [] r = rune.Dstroke           -> rune.dstroke
      [] OTHER                      -> r

ToLower(s) == [i \in 1..Len(s) |-> ToLowerRune(s[i])]

(* strings.ContainsRune *)
ContainsRune(s, r) == \E i \in 1..Len(s) : s[i] = r

(* strings.Contains(s, sep) for a one-rune sep *)
Contains(s, sep) == ContainsRune(s, sep)

(* strings.Split(s, sep) for a one-rune sep: one more part than there are  *)
(* separators; Split("", sep) is [""].                                     *)
RECURSIVE SplitFrom(_, _, _, _)
SplitFrom(s, sep, cur, parts) ==
    IF s = <<>> THEN Append(parts, cur)
    ELSE IF Head(s) = sep
         THEN SplitFrom(Tail(s), sep, <<>>, Append(parts, cur))
         ELSE SplitFrom(Tail(s), sep, Append(cur, Head(s)), parts)

Split(s, sep) == SplitFrom(s, sep, <<>>, <<>>)

(* strings.Fields: the maximal runs of non-space runes; never an empty one *)
RECURSIVE FieldsFrom(_, _, _)
FieldsFrom(s, cur, parts) ==
    IF s = <<>> THEN (IF cur = <<>> THEN parts ELSE Append(parts, cur))
    ELSE IF IsSpace(Head(s))
         THEN FieldsFrom(Tail(s), <<>>,
                         IF cur = <<>> THEN parts ELSE Append(parts, cur))
         ELSE FieldsFrom(Tail(s), Append(cur, Head(s)), parts)

Fields(s) == FieldsFrom(s, <<>>, <<>>)

(* strings.Join *)
RECURSIVE Join(_, _)
Join(parts, sep) ==
    IF parts = <<>> THEN <<>>
    ELSE IF Len(parts) = 1 THEN parts[1]
    ELSE parts[1] \o sep \o Join(Tail(parts), sep)

(* strings.TrimSpace *)
RECURSIVE TrimLeft(_)
TrimLeft(s) ==
    IF s # <<>> /\ IsSpace(Head(s)) THEN TrimLeft(Tail(s)) ELSE s

RECURSIVE TrimRight(_)
TrimRight(s) ==
    IF s # <<>> /\ IsSpace(s[Len(s)])
    THEN TrimRight(SubSeq(s, 1, Len(s) - 1)) ELSE s

TrimSpace(s) == TrimRight(TrimLeft(s))

(* strconv.Atoi: an optional sign, then one or more decimal digits, whose  *)
(* value fits the 64-bit int.  err stands for a non-nil error.  The value  *)
(* is compared to the limit digit by digit, as the model's integers are    *)
(* narrower than Go's.                                                     *)
IsDigit(r) == r >= rune.zero /\ r <= rune.nine

RECURSIVE StripZeros(_)
StripZeros(s) ==
    IF Len(s) > 1 /\ Head(s) = rune.zero THEN StripZeros(Tail(s)) ELSE s

(* the decimal digits of 1<<63 - 1 *)
MaxInt64Digits ==
    <<57, 50, 50, 51, 51, 55, 50, 48, 51, 54, 56, 53, 52, 55, 55, 53, 56, 48, 55>>

(* the decimal digits of 1<<63 *)
MinInt64Digits ==
    <<57, 50, 50, 51, 51, 55, 50, 48, 51, 54, 56, 53, 52, 55, 55, 53, 56, 48, 56>>

RECURSIVE DigitsGreater(_, _)
DigitsGreater(x, y) ==
    IF Len(x) # Len(y) THEN Len(x) > Len(y)
    ELSE IF x = <<>> THEN FALSE
    ELSE IF Head(x) # Head(y) THEN Head(x) > Head(y)
    ELSE DigitsGreater(Tail(x), Tail(y))

RECURSIVE DigitsValue(_, _)
DigitsValue(s, n) ==
    IF s = <<>> THEN n
    ELSE DigitsValue(Tail(s), 10 * n + (Head(s) - rune.zero))

Atoi(s) ==
    LET signed == s # <<>> /\ s[1] \in {rune.plus, rune.hyphen}
        digits == IF signed THEN Tail(s) ELSE s
        neg    == signed /\ s[1] = rune.hyphen
    IN  IF digits = <<>> \/ \E i \in 1..Len(digits) : ~IsDigit(digits[i])
        THEN [err |-> TRUE, n |-> 0]
        ELSE IF DigitsGreater(StripZeros(digits),
                              IF neg THEN MinInt64Digits ELSE MaxInt64Digits)
        THEN [err |-> TRUE, n |-> 0]
        ELSE [err |-> FALSE,
              n |-> IF neg THEN 0 - DigitsValue(digits, 0)
                    ELSE DigitsValue(digits, 0)]

-----------------------------------------------------------------------------
(* The program's functions.                                                *)

(* removeDiacritics (both generations): NFD, then every Mn rune dropped,   *)
(* U+0111 written as 'd' and U+0110 as 'D'.                                *)
RECURSIVE removeDiacriticsLoop(_, _)
removeDiacriticsLoop(t, b) ==
    IF t = <<>> THEN b
    ELSE LET r == Head(t) IN
         IF IsMn(r) THEN removeDiacriticsLoop(Tail(t), b)
         ELSE IF r = rune.dstroke
              THEN removeDiacriticsLoop(Tail(t), Append(b, rune.d))
         ELSE IF r = rune.Dstroke
              THEN removeDiacriticsLoop(Tail(t), Append(b, rune.D))
         ELSE removeDiacriticsLoop(Tail(t), Append(b, r))

removeDiacritics(str) == removeDiacriticsLoop(NFD(str), <<>>)

(* normalizeSpaces *)
normalizeSpaces(s) == Join(Fields(s), <<rune.sp>>)

(* Variant of parsePatternLoop that drops a part that is not an integer.   *)
RECURSIVE parsePatternLoopStrict(_, _, _)
parsePatternLoopStrict(parts, conds, mustChars) ==
    IF parts = <<>> THEN [conds |-> conds, mustChars |-> mustChars]
    ELSE LET n == Atoi(Head(parts)) IN
         IF ~n.err
         THEN parsePatternLoopStrict(Tail(parts), Append(conds, n.n), mustChars)
         ELSE parsePatternLoopStrict(Tail(parts), conds, mustChars)

(* parsePattern (first generation): returns (conds, mustChars).            *)
RECURSIVE parsePatternLoop(_, _, _)
parsePatternLoop(parts, conds, mustChars) ==
    IF parts = <<>> THEN [conds |-> conds, mustChars |-> mustChars]
    ELSE LET p == Head(parts)
             n == Atoi(p)
         IN  IF ~n.err
             THEN parsePatternLoop(Tail(parts), Append(conds, n.n), mustChars)
             ELSE parsePatternLoop(Tail(parts), conds, mustChars \o p)

parsePattern(q) == parsePatternLoop(Split(q, rune.hyphen), <<>>, <<>>)

(* A function result: panic is an index out of range at run time, value    *)
(* the boolean returned otherwise.                                         *)
Return(v) == [panic |-> FALSE, value |-> v]
Panic     == [panic |-> TRUE, value |-> FALSE]

(* matchWildcard of the first generation (two arguments).                  *)
RECURSIVE matchWildcardV1Loop(_, _, _)
matchWildcardV1Loop(pRunes, tRunes, i) ==
    IF i > Len(pRunes) THEN Return(TRUE)
    ELSE IF pRunes[i] = rune.star THEN matchWildcardV1Loop(pRunes, tRunes, i + 1)
    ELSE IF i > Len(tRunes) THEN Panic
    ELSE IF pRunes[i] # tRunes[i] THEN Return(FALSE)
    ELSE matchWildcardV1Loop(pRunes, tRunes, i + 1)

matchWildcardV1(pattern, text) ==
    IF Len(pattern) # Len(text) THEN Return(FALSE)
    ELSE matchWildcardV1Loop(pattern, text, 1)

(* matchSyllablePatternWithChars: the guard on the number of parts.        *)
PartsCountDiffers(parts, conds) == Len(parts) # Len(conds)

RECURSIVE syllableLengthLoop(_, _, _)
syllableLengthLoop(parts, conds, i) ==
    IF i > Len(parts) THEN Return(TRUE)
    ELSE IF i > Len(conds) THEN Panic
    ELSE IF Len(parts[i]) # conds[i] THEN Return(FALSE)
    ELSE syllableLengthLoop(parts, conds, i + 1)

(* Variant of mustCharsLoop that looks for the first rune only.            *)
mustCharsLoopFirstOnly(word, mustChars) ==
    mustChars = <<>> \/ ContainsRune(word, Head(mustChars))

RECURSIVE mustCharsLoop(_, _)
mustCharsLoop(word, mustChars) ==
    IF mustChars = <<>> THEN TRUE
    ELSE IF ~ContainsRune(word, Head(mustChars)) THEN FALSE
    ELSE mustCharsLoop(word, Tail(mustChars))

matchSyllablePatternWithChars(word, conds, mustChars) ==
    LET parts == Fields(word) IN
    IF PartsCountDiffers(parts, conds) THEN Return(FALSE)
    ELSE LET lens == syllableLengthLoop(parts, conds, 1) IN
         IF lens.panic \/ ~lens.value THEN lens
         ELSE Return(mustCharsLoop(word, mustChars))

(* Variant of WordCountDiffers: the guard left out.                        *)
WordCountDiffersNever(pWords, tWords) == FALSE

(* matchWildcard of the second generation (four arguments).                *)
(* The guard on the number of syllables.                                   *)
WordCountDiffers(pWords, tWords) == Len(pWords) # Len(tWords)

(* Variant of cellLoop that records the word's rune under every cell, the  *)
(* literal ones too.                                                       *)
RECURSIVE cellLoopAllCells(_, _, _, _)
cellLoopAllCells(pw, tw, j, acc) ==
    IF j > Len(pw) THEN [panic |-> FALSE, ok |-> TRUE, acc |-> acc]
    ELSE IF j > Len(tw) THEN [panic |-> TRUE, ok |-> FALSE, acc |-> acc]
    ELSE IF pw[j] # rune.star /\ pw[j] # tw[j]
         THEN [panic |-> FALSE, ok |-> FALSE, acc |-> acc]
    ELSE cellLoopAllCells(pw, tw, j + 1, Append(acc, tw[j]))

(* The inner loop over the cells of one syllable: ok is false on a literal *)
(* mismatch, acc is allWildcardRunes.                                      *)
RECURSIVE cellLoop(_, _, _, _)
cellLoop(pw, tw, j, acc) ==
    IF j > Len(pw) THEN [panic |-> FALSE, ok |-> TRUE, acc |-> acc]
    ELSE IF j > Len(tw) THEN [panic |-> TRUE, ok |-> FALSE, acc |-> acc]
    ELSE IF pw[j] = rune.star THEN cellLoop(pw, tw, j + 1, Append(acc, tw[j]))
    ELSE IF pw[j] # tw[j] THEN [panic |-> FALSE, ok |-> FALSE, acc |-> acc]
    ELSE cellLoop(pw, tw, j + 1, acc)

(* The outer loop over the syllables.                                      *)
RECURSIVE wordLoop(_, _, _, _)
wordLoop(pWords, tWords, i, acc) ==
    IF i > Len(pWords) THEN [panic |-> FALSE, ok |-> TRUE, acc |-> acc]
    ELSE IF i > Len(tWords) THEN [panic |-> TRUE, ok |-> FALSE, acc |-> acc]
    ELSE IF Len(pWords[i]) # Len(tWords[i])
         THEN [panic |-> FALSE, ok |-> FALSE, acc |-> acc]
    ELSE LET c == cellLoop(pWords[i], tWords[i], 1, acc) IN
         IF c.panic \/ ~c.ok THEN c
         ELSE wordLoop(pWords, tWords, i + 1, c.acc)

RECURSIVE requiredLoop(_, _)
requiredLoop(wildcardText, required) ==
    IF required = <<>> THEN TRUE
    ELSE IF ~ContainsRune(wildcardText, Head(required)) THEN FALSE
    ELSE requiredLoop(wildcardText, Tail(required))

RECURSIVE excludedLoop(_, _)
excludedLoop(wildcardText, excluded) ==
    IF excluded = <<>> THEN TRUE
    ELSE IF ContainsRune(wildcardText, Head(excluded)) THEN FALSE
    ELSE excludedLoop(wildcardText, Tail(excluded))

matchWildcard(pattern, text, required, excluded) ==
    LET pWords == Split(normalizeSpaces(pattern), rune.sp)
        tWords == Split(text, rune.sp)
    IN  IF WordCountDiffers(pWords, tWords) THEN Return(FALSE)
        ELSE LET w == wordLoop(pWords, tWords, 1, <<>>) IN
             IF w.panic THEN Panic
             ELSE IF ~w.ok THEN Return(FALSE)
             ELSE IF ~requiredLoop(w.acc, required) THEN Return(FALSE)
             ELSE IF ~excludedLoop(w.acc, excluded) THEN Return(FALSE)
             ELSE Return(TRUE)

(* ui, lines 409..427: the query is lower-cased and stripped, split on     *)
(* ' ', and each part goes to excludedChars, requiredChars or queryPattern.*)
RECURSIVE queryPartsLoop(_, _, _, _)
queryPartsLoop(queryParts, queryPattern, excludedChars, requiredChars) ==
    IF queryParts = <<>>
    THEN [queryPattern |-> queryPattern, excludedChars |-> excludedChars,
          requiredChars |-> requiredChars]
    ELSE LET part == Head(queryParts) IN
         IF Len(part) > 0 /\ part[1] = rune.hyphen
         THEN queryPartsLoop(Tail(queryParts), queryPattern,
                             excludedChars \o Tail(part), requiredChars)
         ELSE IF Len(part) > 0 /\ part[1] = rune.plus
         THEN queryPartsLoop(Tail(queryParts), queryPattern,
                             excludedChars, requiredChars \o Tail(part))
         ELSE queryPartsLoop(Tail(queryParts),
                             (IF queryPattern # <<>>
                              THEN queryPattern \o <<rune.sp>>
                              ELSE queryPattern) \o part,
                             excludedChars, requiredChars)

(* The part separator of ui's strings.Split(queryNorm, " ").               *)
QueryPartSep == rune.sp

parseQuery(q) ==
    LET queryNorm == ToLower(removeDiacritics(q))
    IN  queryPartsLoop(Split(queryNorm, QueryPartSep), <<>>, <<>>, <<>>)

-----------------------------------------------------------------------------
(* The dictionary, its cache file and its source.                          *)

(* A file or an HTTP answer: kind says what a reader gets, keys are the    *)
(* keys of the JSON object it holds when kind = "json".                    *)
File(kind, keys) == [kind |-> kind, keys |-> keys]

(* json.Marshal of the map, json.Unmarshal / Decoder.Decode into it.       *)
jsonMarshal(d) == File("json", d)

jsonUnmarshal(data) ==
    IF data.kind = "json" THEN [err |-> FALSE, dict |-> data.keys]
    ELSE [err |-> TRUE, dict |-> {}]

(* loadDictFromURL: an error of http.Get, a status other than 200 and a    *)
(* body that does not decode all give (nil, err).                          *)
loadDictFromURL(url) ==
    IF url.kind = "json" THEN jsonUnmarshal(url)
    ELSE [err |-> TRUE, dict |-> {}]

(* os.WriteFile(cachePath, data, 0644): when it fails the file is left as  *)
(* it was (the open failed) or cut short (the write failed).               *)
WriteFile(file, data, canWrite) ==
    IF canWrite THEN {data} ELSE {file, File("corrupt", {})}

(* loadDict, lines 270..278: os.Stat, os.ReadFile and json.Unmarshal all   *)
(* succeed on the cache file.                                              *)
CacheLoads(file) ==
    file.kind # "missing" /\ file.kind # "unreadable" /\ ~jsonUnmarshal(file).err

(* Variant of loadDict that asks the source whatever the cache holds.      *)
loadDictAlwaysFetch(file, url, canWrite) ==
    LET got == loadDictFromURL(url)
    IN  IF got.err
        THEN {[dict |-> {}, err |-> TRUE, file |-> file,
               fetched |-> TRUE, wrote |-> "none"]}
        ELSE {[dict |-> got.dict, err |-> FALSE, file |-> f,
               fetched |-> TRUE, wrote |-> IF canWrite THEN "ok" ELSE "failed"] :
                 f \in WriteFile(file, jsonMarshal(got.dict), canWrite)}

(* loadDict: the outcomes (dict, err), with the cache file afterwards,     *)
(* whether the source was asked and how the write ended.                   *)
loadDict(file, url, canWrite) ==
    LET got == loadDictFromURL(url)
    IN  IF CacheLoads(file)
        THEN {[dict |-> jsonUnmarshal(file).dict, err |-> FALSE, file |-> file,
               fetched |-> FALSE, wrote |-> "none"]}
        ELSE IF got.err
        THEN {[dict |-> {}, err |-> TRUE, file |-> file,
               fetched |-> TRUE, wrote |-> "none"]}
        ELSE {[dict |-> got.dict, err |-> FALSE, file |-> f,
               fetched |-> TRUE, wrote |-> IF canWrite THEN "ok" ELSE "failed"] :
                 f \in WriteFile(file, jsonMarshal(got.dict), canWrite)}

-----------------------------------------------------------------------------
(* Bounds of the model and the sets its inputs are drawn from.             *)

MaxPatLen   == 3    \* runes of a wildcard pattern
MaxWordLen  == 3    \* runes of a word handed to a matcher
MaxSetLen   == 2    \* runes of required and excluded together
MaxMustLen  == 2    \* runes of mustChars
MaxConds    == 2    \* length constraints of a length query
MaxCond     == 2    \* greatest length constraint
MaxQueryLen == 4    \* runes of a query handed to a parser
MaxTextLen  == 3    \* runes of a text handed to removeDiacritics
MaxLineLen  == 2    \* runes of a line typed at the prompt
MaxDictSize == 2    \* keys of a dictionary

Letters      == {rune.a, rune.b}
PatternRunes == {rune.a, rune.star, rune.sp, rune.tab}
WordRunes    == Letters \cup {rune.sp}
LengthQueryRunes == {rune.two, rune.a, rune.hyphen, rune.plus}
QueryRunes   == {rune.a, rune.star, rune.sp, rune.tab, rune.hyphen, rune.plus}
TextRunes    == {rune.a, rune.aacute, rune.adotbelow, rune.acute, rune.dotbelow,
                 rune.dstroke, rune.Dstroke, rune.cgj, rune.tonemark, rune.stem}
LineRunes    == {rune.star, rune.sp, rune.hyphen}

(* The directives, as typed. *)
Quit  == <<33, 113, 117, 105, 116>>        \* "!quit"
Help  == <<33, 104, 101, 108, 112>>        \* "!help"
Clear == <<33, 99, 108, 101, 97, 114>>     \* "!clear"

(* Dictionary keys: "Bá", "a  b" (two spaces) and "đ". *)
WordBa == <<rune.B, rune.aacute>>
WordAB == <<rune.a, rune.sp, rune.sp, rune.b>>
WordD  == <<rune.dstroke>>
Words  == {WordBa, WordAB, WordD}
Dicts  == {d \in SUBSET Words : Cardinality(d) <= MaxDictSize}

(* Lines typed at the prompt: every short line, the directives, and the    *)
(* queries "b*", "* *", "a *", "* -a", "* -d", "** +a", "** -a", "2-a",    *)
(* "2-b" and "1-1".                                                        *)
Lines ==
    Strings(LineRunes, MaxLineLen)
    \cup {Quit, Help, Clear, <<rune.sp>> \o Quit}
    \cup {<<rune.b, rune.star>>,
          <<rune.star, rune.sp, rune.star>>,
          <<rune.a, rune.sp, rune.star>>,
          <<rune.star, rune.sp, rune.hyphen, rune.a>>,
          <<rune.star, rune.sp, rune.hyphen, rune.d>>,
          <<rune.star, rune.star, rune.sp, rune.plus, rune.a>>,
          <<rune.star, rune.star, rune.sp, rune.hyphen, rune.a>>,
          <<rune.two, rune.hyphen, rune.a>>,
          <<rune.two, rune.hyphen, rune.b>>,
          <<rune.one, rune.hyphen, rune.one>>}

CacheFiles ==
    {File("missing", {}), File("unreadable", {}), File("corrupt", {})}
    \cup {File("json", d) : d \in Dicts}

Remotes ==
    {File("unreachable", {}), File("status", {}), File("malformed", {})}
    \cup {File("json", d) : d \in Dicts}

NoRequest == File("none", {})

NoArg == [fn |-> "none"]
NoRet == [panic |-> FALSE, value |-> FALSE]

-----------------------------------------------------------------------------
(* The programs.                                                           *)

Init ==
    /\ prog \in {"v1", "v2"}
    /\ pc = "load"
    /\ cache \in CacheFiles
    /\ remote = NoRequest
    /\ wrote = "none"
    /\ dict = {}
    /\ query = <<>>
    /\ branch = "none"
    /\ out = {}
    /\ exitCode = 0
    /\ arg = NoArg
    /\ ret = NoRet

(* main, both generations: dict, _ := loadDict(url); the error is dropped. *)
(* What the source answers and whether the cache can be written are the    *)
(* environment's choice.                                                   *)
mainLoadDict ==
    /\ pc = "load"
    /\ \E url \in Remotes, canWrite \in BOOLEAN :
          \E r \in loadDict(cache, url, canWrite) :
             /\ dict' = r.dict
             /\ cache' = r.file
             /\ remote' = IF r.fetched THEN url ELSE NoRequest
             /\ wrote' = r.wrote
    /\ pc' = "prompt"
    /\ UNCHANGED <<prog, query, branch, out, exitCode, arg, ret>>

(* The lookup loops.  Each gives the matcher's result for every key; the   *)
(* keys whose result is true are printed, in the map's iteration order.    *)
lengthLookup(d, q) ==
    LET p == parsePattern(q) IN
    [w \in d |-> matchSyllablePatternWithChars(removeDiacritics(w),
                                                p.conds, p.mustChars)]

wildcardLookupV1(d, q) ==
    LET queryNorm == ToLower(removeDiacritics(q)) IN
    [w \in d |-> matchWildcardV1(queryNorm, ToLower(removeDiacritics(w)))]

wildcardLookup(d, q) ==
    LET p == parseQuery(q) IN
    [w \in d |-> matchWildcard(p.queryPattern,
                               ToLower(removeDiacritics(normalizeSpaces(w))),
                               p.requiredChars, p.excludedChars)]

(* A lookup loop ends the handler: it prints the matching keys, or the     *)
(* process dies of a run-time panic (exit status 2).                       *)
Lookup(results, next) ==
    IF \E w \in DOMAIN results : results[w].panic
    THEN /\ out' = {}
         /\ pc' = "exit"
         /\ exitCode' = 2
    ELSE /\ out' = {w \in DOMAIN results : results[w].value}
         /\ pc' = next
         /\ exitCode' = 0

(* Variant of IsLengthQuery: the query begins with a digit.                *)
IsLengthQueryByDigit(q) == q # <<>> /\ IsDigit(q[1])

(* main of the first generation, line 198: the case that selects the       *)
(* length dialect.                                                         *)
IsLengthQuery(q) == Contains(q, rune.hyphen)

(* main of the first generation: one line is read and handled, then main   *)
(* returns.                                                                *)
mainV1Help ==
    /\ prog = "v1" /\ pc = "prompt"
    /\ \E line \in Lines :
          /\ query' = TrimSpace(line)
          /\ query' = Help
    /\ branch' = "help"
    /\ out' = {}
    /\ pc' = "exit"
    /\ exitCode' = 0
    /\ UNCHANGED <<prog, cache, remote, wrote, dict, arg, ret>>

mainV1Length ==
    /\ prog = "v1" /\ pc = "prompt"
    /\ \E line \in Lines :
          /\ query' = TrimSpace(line)
          /\ query' # Help
          /\ IsLengthQuery(query')
          /\ Lookup(lengthLookup(dict, query'), "exit")
    /\ branch' = "length"
    /\ UNCHANGED <<prog, cache, remote, wrote, dict, arg, ret>>

mainV1Wildcard ==
    /\ prog = "v1" /\ pc = "prompt"
    /\ \E line \in Lines :
          /\ query' = TrimSpace(line)
          /\ query' # Help
          /\ ~IsLengthQuery(query')
          /\ Lookup(wildcardLookupV1(dict, query'), "exit")
    /\ branch' = "wildcard"
    /\ UNCHANGED <<prog, cache, remote, wrote, dict, arg, ret>>

(* ui, called by main of the second generation in `for { ui(dict) }`.      *)
uiQuit ==
    /\ prog = "v2" /\ pc = "prompt"
    /\ \E line \in Lines :
          /\ query' = TrimSpace(line)
          /\ query' = Quit
    /\ branch' = "quit"
    /\ out' = {}
    /\ pc' = "exit"
    /\ exitCode' = 0
    /\ UNCHANGED <<prog, cache, remote, wrote, dict, arg, ret>>

uiHelp ==
    /\ prog = "v2" /\ pc = "prompt"
    /\ \E line \in Lines :
          /\ query' = TrimSpace(line)
          /\ query' = Help
    /\ branch' = "help"
    /\ out' = {}
    /\ pc' = "exit"
    /\ exitCode' = 0
    /\ UNCHANGED <<prog, cache, remote, wrote, dict, arg, ret>>

(* Variant of uiClear that leaves the loop.                                *)
uiClearExits ==
    /\ prog = "v2" /\ pc = "prompt"
    /\ \E line \in Lines :
          /\ query' = TrimSpace(line)
          /\ query' = Clear
    /\ branch' = "clear"
    /\ out' = {}
    /\ pc' = "exit"
    /\ exitCode' = 0
    /\ UNCHANGED <<prog, cache, remote, wrote, dict, arg, ret>>

uiClear ==
    /\ prog = "v2" /\ pc = "prompt"
    /\ \E line \in Lines :
          /\ query' = TrimSpace(line)
          /\ query' = Clear
    /\ branch' = "clear"
    /\ out' = {}
    /\ pc' = "prompt"
    /\ exitCode' = 0
    /\ UNCHANGED <<prog, cache, remote, wrote, dict, arg, ret>>

uiQuery ==
    /\ prog = "v2" /\ pc = "prompt"
    /\ \E line \in Lines :
          /\ query' = TrimSpace(line)
          /\ query' \notin {Quit, Help, Clear}
          /\ Lookup(wildcardLookup(dict, query'), "prompt")
    /\ branch' = "wildcard"
    /\ UNCHANGED <<prog, cache, remote, wrote, dict, arg, ret>>

Next ==
    \/ mainLoadDict
    \/ mainV1Help
    \/ mainV1Length
    \/ mainV1Wildcard
    \/ uiQuit
    \/ uiHelp
    \/ uiClear
    \/ uiQuery

Spec == Init /\ [][Next]_vars

-----------------------------------------------------------------------------
(* The functions on their own: a call with arguments drawn from the input  *)
(* sets, then its return.                                                  *)

(* The arguments of each call.  ui hands matchWildcard words with single   *)
(* spaces (line 434): these come with every required and excluded, any     *)
(* other word with empty ones.                                             *)
MatchWildcardArgs ==
    \/ \E p \in Strings(PatternRunes, MaxPatLen),
          t \in { w \in Strings(WordRunes, MaxWordLen) : w = normalizeSpaces(w) },
          r \in Strings(Letters, MaxSetLen),
          e \in Strings(Letters, MaxSetLen) :
             /\ Len(r) + Len(e) <= MaxSetLen
             /\ arg = [fn |-> "matchWildcard", pattern |-> p, text |-> t,
                       required |-> r, excluded |-> e]
    \/ \E p \in Strings(PatternRunes, MaxPatLen),
          t \in { w \in Strings(WordRunes, MaxWordLen) : w # normalizeSpaces(w) } :
             arg = [fn |-> "matchWildcard", pattern |-> p, text |-> t,
                    required |-> <<>>, excluded |-> <<>>]

MatchWildcardV1Args ==
    \E p \in Strings(PatternRunes, MaxPatLen),
       t \in Strings(WordRunes, MaxWordLen) :
          arg = [fn |-> "matchWildcardV1", pattern |-> p, text |-> t]

MatchSyllableArgs ==
    \E w \in Strings(WordRunes, MaxWordLen),
       c \in Strings(0..MaxCond, MaxConds),
       m \in Strings(Letters, MaxMustLen) :
          arg = [fn |-> "matchSyllablePatternWithChars", word |-> w,
                 conds |-> c, mustChars |-> m]

ParsePatternArgs ==
    \E q \in Strings(LengthQueryRunes, MaxQueryLen) :
       arg = [fn |-> "parsePattern", query |-> q]

ParseQueryArgs ==
    \E q \in Strings(QueryRunes, MaxQueryLen) :
       arg = [fn |-> "parseQuery", query |-> q]

RemoveDiacriticsArgs ==
    \E x \in Strings(TextRunes, MaxTextLen) :
       arg = [fn |-> "removeDiacritics", str |-> x]

InitFn ==
    /\ prog = "fn"
    /\ pc = "call"
    /\ cache = File("missing", {})
    /\ remote = NoRequest
    /\ wrote = "none"
    /\ dict = {}
    /\ query = <<>>
    /\ branch = "none"
    /\ out = {}
    /\ exitCode = 0
    /\ ret = NoRet
    /\ \/ MatchWildcardArgs
       \/ MatchWildcardV1Args
       \/ MatchSyllableArgs
       \/ ParsePatternArgs
       \/ ParseQueryArgs
       \/ RemoveDiacriticsArgs

Returns(fn, result) ==
    /\ pc = "call"
    /\ arg.fn = fn
    /\ ret' = result
    /\ pc' = "return"
    /\ UNCHANGED <<prog, cache, remote, wrote, dict, query, branch, out,
                   exitCode, arg>>

CallMatchWildcard ==
    Returns("matchWildcard",
            matchWildcard(arg.pattern, arg.text, arg.required, arg.excluded))

CallMatchWildcardV1 ==
    Returns("matchWildcardV1", matchWildcardV1(arg.pattern, arg.text))

CallMatchSyllablePatternWithChars ==
    Returns("matchSyllablePatternWithChars",
            matchSyllablePatternWithChars(arg.word, arg.conds, arg.mustChars))

CallParsePattern ==
    Returns("parsePattern", parsePattern(arg.query))

(* ui trims the line (line 398) before it parses it. *)
CallParseQuery ==
    Returns("parseQuery", parseQuery(TrimSpace(arg.query)))

CallRemoveDiacritics ==
    Returns("removeDiacritics", removeDiacritics(arg.str))

NextFn ==
    \/ CallMatchWildcard
    \/ CallMatchWildcardV1
    \/ CallMatchSyllablePatternWithChars
    \/ CallParsePattern
    \/ CallParseQuery
    \/ CallRemoveDiacritics

SpecFn == InitFn /\ [][NextFn]_vars

-----------------------------------------------------------------------------
(* Properties.                                                             *)

Returned(fn) == pc = "return" /\ arg.fn = fn

(* The runes of a string list, concatenated. *)
RECURSIVE Flatten(_)
Flatten(ss) == IF ss = <<>> THEN <<>> ELSE Head(ss) \o Flatten(Tail(ss))

(* What the wildcard matcher is to decide, on the syllables (the maximal   *)
(* runs of non-space runes) of the pattern and of the word.                *)
WildcardMatches(pattern, word, required, excluded) ==
    LET P == Fields(pattern)
        W == Fields(word)
        Under == UNION { { W[i][j] : j \in { k \in 1..Len(P[i]) :
                                                P[i][k] = rune.star } } :
                         i \in 1..Len(P) }
    IN  /\ Len(P) = Len(W)
        /\ \A i \in 1..Len(P) : Len(P[i]) = Len(W[i])
        /\ \A i \in 1..Len(P) : \A j \in 1..Len(P[i]) :
              P[i][j] # rune.star => P[i][j] = W[i][j]
        /\ \A k \in 1..Len(required) : required[k] \in Under
        /\ \A k \in 1..Len(excluded) : excluded[k] \notin Under

(* C1: on a normalized word (single spaces, none leading or trailing),     *)
(* matchWildcard returns true exactly when pattern and word have the same  *)
(* number of syllables, of the same lengths, every literal cell equals the *)
(* word's rune, every required rune and no excluded rune occurs under a    *)
(* '*' cell.                                                               *)
C1_MatchWildcardIff ==
    (Returned("matchWildcard") /\ arg.text = normalizeSpaces(arg.text))
    => ret = Return(WildcardMatches(arg.pattern, arg.text,
                                    arg.required, arg.excluded))

(* "a*" matches "ab" although 'a', at a literal position, is excluded. *)
C1_Witness ==
    /\ Returned("matchWildcard")
    /\ arg.pattern = <<rune.a, rune.star>>
    /\ arg.text = <<rune.a, rune.b>>
    /\ arg.required = <<rune.b>>
    /\ arg.excluded = <<rune.a>>
    /\ ret.value

(* What the ui parser is to produce from the white-space separated tokens  *)
(* of the query.                                                           *)
IsExcludedToken(t) == t[1] = rune.hyphen
IsRequiredToken(t) == t[1] = rune.plus
IsSyllableToken(t) == ~IsExcludedToken(t) /\ ~IsRequiredToken(t)

RECURSIVE Tails(_)
Tails(ss) == IF ss = <<>> THEN <<>> ELSE <<Tail(Head(ss))>> \o Tails(Tail(ss))

(* C2: the query's white-space separated tokens are classified one by one: *)
(* the '-' tokens give the excluded runes, the '+' tokens the required     *)
(* runes, the others the template syllables, in order.                     *)
C2_TokensClassified ==
    Returned("parseQuery")
    => LET tokens == Fields(ToLower(removeDiacritics(arg.query))) IN
       /\ Fields(ret.queryPattern) = SelectSeq(tokens, IsSyllableToken)
       /\ ret.excludedChars = Flatten(Tails(SelectSeq(tokens, IsExcludedToken)))
       /\ ret.requiredChars = Flatten(Tails(SelectSeq(tokens, IsRequiredToken)))

(* What the length matcher is to decide. *)
LengthMatches(word, conds, mustChars) ==
    LET S == Fields(word) IN
    /\ Len(S) = Len(conds)
    /\ \A i \in 1..Len(S) : Len(S[i]) = conds[i]
    /\ \A k \in 1..Len(mustChars) : \E n \in 1..Len(word) : word[n] = mustChars[k]

(* C3: matchSyllablePatternWithChars returns true exactly when the word    *)
(* has as many syllables as there are constraints, the i-th syllable has   *)
(* the i-th length, and every must-contain rune occurs in the whole word.  *)
C3_LengthMatchIff ==
    Returned("matchSyllablePatternWithChars")
    => ret = Return(LengthMatches(arg.word, arg.conds, arg.mustChars))

(* "a b" under the constraints 1, 1 and the must-contain runes "ba". *)
C3_Witness ==
    /\ Returned("matchSyllablePatternWithChars")
    /\ arg.word = <<rune.a, rune.sp, rune.b>>
    /\ arg.conds = <<1, 1>>
    /\ arg.mustChars = <<rune.b, rune.a>>
    /\ ret.value

(* A part that is a non-negative integer: an optional '+', then digits.    *)
IsNaturalPart(p) ==
    LET ds == IF p # <<>> /\ p[1] = rune.plus THEN Tail(p) ELSE p IN
    ds # <<>> /\ \A i \in 1..Len(ds) : IsDigit(ds[i])

RECURSIVE Pow10(_)
Pow10(n) == IF n = 0 THEN 1 ELSE 10 * Pow10(n - 1)

RECURSIVE SumTo(_, _)
SumTo(f, n) == IF n = 0 THEN 0 ELSE f[n] + SumTo(f, n - 1)

NaturalValue(p) ==
    LET ds == IF p[1] = rune.plus THEN Tail(p) ELSE p IN
    SumTo([i \in 1..Len(ds) |-> (ds[i] - 48) * Pow10(Len(ds) - i)], Len(ds))

(* C4: parsePattern gives a result for every query: the parts between the  *)
(* hyphens that are non-negative integers become the constraints, in       *)
(* order, and every other part is appended unchanged to mustChars.         *)
C4_ParsePatternLenient ==
    Returned("parsePattern")
    => LET parts  == Split(arg.query, rune.hyphen)
           nums   == SelectSeq(parts, IsNaturalPart)
           others == SelectSeq(parts, LAMBDA p : ~IsNaturalPart(p))
       IN  /\ ret.conds = [i \in 1..Len(nums) |-> NaturalValue(nums[i])]
           /\ \A i \in 1..Len(ret.conds) : ret.conds[i] >= 0
           /\ ret.mustChars = Flatten(others)

(* "2-+-": the part "+" looks like an integer and does not parse, the last *)
(* part is empty.                                                          *)
C4_Witness ==
    /\ Returned("parsePattern")
    /\ arg.query = <<rune.two, rune.hyphen, rune.plus, rune.hyphen>>
    /\ ret = [conds |-> <<2>>, mustChars |-> <<rune.plus>>]

(* C7: removeDiacritics is idempotent, its result holds no non-spacing     *)
(* mark and no U+0111 or U+0110, and the empty text gives the empty text.  *)
C7_Idempotent ==
    Returned("removeDiacritics")
    => /\ removeDiacritics(ret) = ret
       /\ \A i \in 1..Len(ret) :
             ~IsMn(ret[i]) /\ ret[i] \notin {rune.dstroke, rune.Dstroke}
       /\ (arg.str = <<>> => ret = <<>>)

(* C9: the matchers return a boolean and never index out of range.         *)
C9_MatchNeverFails ==
    (pc = "return" /\ arg.fn \in {"matchWildcard", "matchWildcardV1",
                                 "matchSyllablePatternWithChars"})
    => ~ret.panic /\ ret.value \in BOOLEAN

(* A pattern of two syllables against a word of one is simply no match;    *)
(* so is the empty pattern against a word.                                 *)
C9_Witness ==
    /\ Returned("matchWildcard")
    /\ arg.pattern = <<rune.a, rune.sp, rune.a>>
    /\ arg.text = <<rune.a>>
    /\ ret = Return(FALSE)

-----------------------------------------------------------------------------
(* Properties of the programs.                                             *)

Looked == pc \in {"prompt", "exit"} /\ branch \in {"length", "wildcard"}

Printed(results) == {w \in DOMAIN results : results[w].value}

(* C5 as claimed: a query with a hyphen is matched in the length dialect,  *)
(* a query without one as a wildcard pattern.                              *)
C5_HyphenSelectsDialect ==
    Looked => (branch = "length" <=> Contains(query, rune.hyphen))

(* C5 as amended: so it is in the first generation's main; in ui every     *)
(* query is matched as a wildcard pattern, a hyphen or not.                *)
C5_DialectByGeneration ==
    /\ (Looked /\ prog = "v1")
       => /\ branch = "length" <=> Contains(query, rune.hyphen)
          /\ out = IF Contains(query, rune.hyphen)
                   THEN Printed(lengthLookup(dict, query))
                   ELSE Printed(wildcardLookupV1(dict, query))
    /\ (Looked /\ prog = "v2")
       => /\ branch = "wildcard"
          /\ out = Printed(wildcardLookup(dict, query))

(* ui has matched "* -a", which holds a hyphen, as a wildcard pattern and  *)
(* printed the key U+0111 alone.                                           *)
C5_Witness ==
    /\ prog = "v2" /\ pc = "prompt" /\ branch = "wildcard"
    /\ query = <<rune.star, rune.sp, rune.hyphen, rune.a>>
    /\ dict = {WordD, WordBa}
    /\ out = {WordD}

(* The comparison form of a key: lower-cased, diacritics stripped, white   *)
(* space collapsed.                                                        *)
ComparisonForm(w) == ToLower(removeDiacritics(normalizeSpaces(w)))

MatchesQuery(w) ==
    IF branch = "length"
    THEN LET p == parsePattern(query) IN
         matchSyllablePatternWithChars(ComparisonForm(w), p.conds,
                                       p.mustChars).value
    ELSE IF prog = "v1"
    THEN matchWildcardV1(ToLower(removeDiacritics(query)),
                         ComparisonForm(w)).value
    ELSE LET p == parseQuery(query) IN
         matchWildcard(p.queryPattern, ComparisonForm(w),
                       p.requiredChars, p.excludedChars).value

(* C6: in both dialects the keys printed are exactly the keys whose        *)
(* comparison form matches the query.                                      *)
C6_ComparisonFormMatched ==
    Looked => out = {w \in dict : MatchesQuery(w)}

(* C8 as claimed, on the step that loads the dictionary: a cache that      *)
(* loads is returned and the source is not asked; otherwise the source is  *)
(* asked and, when it answers, its dictionary is returned and the cache    *)
(* holds it; when it fails the dictionary is empty.  An empty dictionary   *)
(* prints nothing and the process does not crash.                          *)
LoadFollowsChain ==
    pc = "load" =>
       IF CacheLoads(cache)
       THEN dict' = cache.keys /\ remote' = NoRequest /\ cache' = cache
       ELSE /\ remote' # NoRequest
            /\ remote'.kind = "json" => dict' = remote'.keys
            /\ remote'.kind # "json" => dict' = {} /\ cache' = cache

EmptyDictPrintsNothing ==
    (pc = "prompt" /\ dict = {}) => (out' = {} /\ exitCode' = 0)

C8_CacheRewritten ==
    [][/\ LoadFollowsChain
       /\ EmptyDictPrintsNothing
       /\ (pc = "load" /\ ~CacheLoads(cache) /\ remote'.kind = "json")
          => cache' = File("json", dict')]_vars

(* C8 as amended: the cache holds the fetched dictionary when the write    *)
(* succeeds; a failed write is ignored, the fetched dictionary is returned *)
(* all the same, and the cache is left as it was or cut short.             *)
C8_CacheRewrittenIfWritable ==
    [][/\ LoadFollowsChain
       /\ EmptyDictPrintsNothing
       /\ (pc = "load" /\ ~CacheLoads(cache) /\ remote'.kind = "json")
          => /\ wrote' \in {"ok", "failed"}
             /\ wrote' = "ok" => cache' = File("json", dict')
             /\ wrote' = "failed" => cache' \in {cache, File("corrupt", {})}]_vars

(* The cache did not load, the source answered, the write failed and left  *)
(* the cache cut short; the fetched dictionary serves a query all the same.*)
C8_Witness ==
    /\ pc = "prompt" /\ remote = File("json", {WordBa})
    /\ wrote = "failed" /\ cache = File("corrupt", {}) /\ dict = {WordBa}
    /\ branch = "wildcard" /\ out = {WordBa}

(* C10: in the loop, the process ends only on "!quit" or "!help", with     *)
(* status 0; after any other line ui returns to the prompt; no iteration   *)
(* changes the dictionary.                                                 *)
C10_LoopEndsOnlyOnDirective ==
    [][(prog = "v2" /\ pc = "prompt")
       => /\ pc' = "exit" => (query' \in {Quit, Help} /\ exitCode' = 0)
          /\ query' \notin {Quit, Help} => pc' = "prompt"
          /\ dict' = dict]_vars

(* Back at the prompt after a query that printed a key.                    *)
C10_Witness ==
    /\ prog = "v2" /\ pc = "prompt" /\ dict # {}
    /\ branch = "wildcard" /\ out # {}

=============================================================================
